---- MODULE Spec2Model ----
(***************************************************************************)
(* Model of src/data_extraction/skate_canada/pdf_extraction.py             *)
(*                                                                         *)
(* Text side.  A text is a sequence of atoms.  "\n" is the newline         *)
(* character and "_" one blank character; every other atom stands for a    *)
(* fixed literal that begins and ends with a word character and contains   *)
(* no white space at its edges:                                            *)
(*   "f" "w" "v"  plain words ("Skate", "Toronto", "Senior")               *)
(*   "D"    a written-month date expression   ("July 14-16, 2024")         *)
(*   "N"    a numeric date range              ("14/07/2024-16/07/2024")    *)
(*   "OL" "SO" "CRS" "ES" "DE"  the marker phrases "Officials List",       *)
(*          "Starting Order", "Category Result Summary", "Element Score",  *)
(*          "Deductions"                                                   *)
(* A marker or a date expression occurs in a text only as a whole atom.    *)
(*                                                                         *)
(* Table side.  A cell is a sequence of characters, a DataFrame a record   *)
(* of its column labels, its index labels and its rows.                    *)
(***************************************************************************)
EXTENDS Integers, Sequences, FiniteSets, TLC

VARIABLES text, raw_grid, extracted_df, pc, ret, locals, first_ret

vars == <<text, raw_grid, extracted_df, pc, ret, locals, first_ret>>

\* ------------------------------------------------------------------ bounds

\* largest number of filler lines put in front of the drawn lines of a text
MaxPad == 10

\* largest number of drawn lines of a text
MaxBody == 3

\* largest number of rows of a raw table grid
MaxRows == 3

\* ------------------------------------------------------------ python helpers

Min(a, b) == IF a < b THEN a ELSE b

Max(a, b) == IF a < b THEN b ELSE a

IsSpace(a) == a \in {"_", "\n"}

RECURSIVE lstrip(_)
lstrip(s) == IF s # <<>> /\ IsSpace(Head(s)) THEN lstrip(Tail(s)) ELSE s

RECURSIVE rstrip(_)
rstrip(s) ==
  IF s # <<>> /\ IsSpace(s[Len(s)]) THEN rstrip(SubSeq(s, 1, Len(s) - 1)) ELSE s

\* str.strip()
strip(s) == rstrip(lstrip(s))

\* str.split('\n'): acc is the line being read, always at least one line
RECURSIVE split_from(_, _)
split_from(s, acc) ==
  IF s = <<>> THEN <<acc>>
  ELSE IF Head(s) = "\n" THEN <<acc>> \o split_from(Tail(s), <<>>)
  ELSE split_from(Tail(s), Append(acc, Head(s)))

split(s) == split_from(s, <<>>)

\* sep.join(items)
RECURSIVE join(_, _)
join(sep, items) ==
  IF items = <<>> THEN <<>>
  ELSE IF Len(items) = 1 THEN items[1]
  ELSE items[1] \o sep \o join(sep, Tail(items))

\* marker in text
InText(marker, t) == \E p \in 1..Len(t) : t[p] = marker

\* xs[k] of a Python list, k an integer: a negative k counts from the end
InRange(xs, k) == -Len(xs) <= k /\ k < Len(xs)

Item(xs, k) == IF k < 0 THEN xs[Len(xs) + k + 1] ELSE xs[k + 1]

\* xs[:k] of a Python list
SliceTo(xs, k) ==
  LET stop == IF k < 0 THEN Max(Len(xs) + k, 0) ELSE Min(k, Len(xs))
  IN  SubSeq(xs, 1, stop)

\* ------------------------------------------------------------ date patterns

date_patterns == <<"written_month", "numeric_range">>

IsWordAtom(a) == ~IsSpace(a)

\* pattern.search(line): \b in front of both patterns, \b behind the numeric one
pattern_search(pattern, line) ==
  \E p \in 1..Len(line) :
    \/ /\ pattern = "written_month"
       /\ line[p] = "D"
       /\ (p = 1 \/ ~IsWordAtom(line[p - 1]))
    \/ /\ pattern = "numeric_range"
       /\ line[p] = "N"
       /\ (p = 1 \/ ~IsWordAtom(line[p - 1]))
       /\ (p = Len(line) \/ ~IsWordAtom(line[p + 1]))

any_pattern(line) ==
  \E k \in 1..Len(date_patterns) : pattern_search(date_patterns[k], line)

\* the width of the window searched for the date line
SearchWindow == 10

\* the window dropped: every line is searched
search_lines_unbounded(lines) == lines

search_lines(lines) == SliceTo(lines, SearchWindow)

None == [found |-> FALSE, line |-> <<>>]

RECURSIVE first_match(_)
first_match(ls) ==
  IF ls = <<>> THEN None
  ELSE IF any_pattern(Head(ls)) THEN [found |-> TRUE, line |-> Head(ls)]
  ELSE first_match(Tail(ls))

find_competition_date_line(t) == first_match(search_lines(split(strip(t))))

\* --------------------------------------------------------------- classifier

\* the first two rules in the other order
infer_document_type_reordered(t) ==
  IF InText("SO", t) THEN "Starting Order"
  ELSE IF InText("OL", t) THEN "Officials List"
  ELSE IF InText("CRS", t) THEN "Category Result Summary"
  ELSE IF InText("ES", t) \/ InText("DE", t) THEN "Detail Sheets"
  ELSE "Unknown"

infer_document_type(t) ==
  IF InText("OL", t) THEN "Officials List"
  ELSE IF InText("SO", t) THEN "Starting Order"
  ELSE IF InText("CRS", t) THEN "Category Result Summary"
  ELSE IF InText("ES", t) \/ InText("DE", t) THEN "Detail Sheets"
  ELSE "Unknown"

\* ---------------------------------------------------------- header assembly

IndexError == [kind |-> "IndexError"]

EmptyDict == [kind |-> "empty dict"]

ReturnsNone == [kind |-> "None"]

extract_detail_sheets_header_info(lines, document_type) ==
  IF Len(lines) < 4 THEN IndexError
  ELSE [kind |-> "header",
        CompetitionName |-> strip(Item(lines, 0)),
        Location |-> strip(Item(lines, 2)),
        DateRange |-> strip(Item(lines, 1)),
        Event |-> strip(Item(lines, 3)),
        DocumentType |-> document_type]

extract_event_sheets_header_info(lines, document_type, date_line_index) ==
  IF \/ ~InRange(lines, date_line_index - 1)
     \/ ~InRange(lines, date_line_index)
     \/ ~InRange(lines, date_line_index + 1)
  THEN IndexError
  ELSE [kind |-> "header",
        CompetitionName |-> strip(join(<<"_">>, SliceTo(lines, date_line_index - 1))),
        Location |-> strip(Item(lines, date_line_index - 1)),
        DateRange |-> strip(Item(lines, date_line_index)),
        Event |-> strip(Item(lines, date_line_index + 1)),
        DocumentType |-> document_type]

\* lines.index(x), 0-based, for an x that is in lines
list_index(lines, x) ==
  (CHOOSE p \in 1..Len(lines) :
     lines[p] = x /\ \A q \in 1..(p - 1) : lines[q] # x) - 1

EventSheetTypes == {"Officials List", "Starting Order", "Result Summary"}

\* the local variables of extract_header_info at its return
header_locals(t) ==
  LET document_type == infer_document_type(t)
      lines == split(strip(t))
      date_line == find_competition_date_line(t)
      date_line_index ==
        IF date_line.found /\ \E p \in 1..Len(lines) : lines[p] = date_line.line
        THEN list_index(lines, date_line.line) ELSE -1
  IN  [document_type |-> document_type, lines |-> lines,
       date_line |-> date_line, date_line_index |-> date_line_index]

\* the guard without its test of the date line index
header_guard_type_only(document_type, date_line_index) ==
  document_type = "Unknown"

header_guard(document_type, date_line_index) ==
  document_type = "Unknown" \/ date_line_index = -1

extract_header_info(t) ==
  LET l == header_locals(t)
  IN  IF header_guard(l.document_type, l.date_line_index) THEN EmptyDict
      ELSE IF l.document_type \in EventSheetTypes
      THEN extract_event_sheets_header_info(l.lines, l.document_type, l.date_line_index)
      ELSE IF l.document_type = "Detail Sheets"
      THEN extract_detail_sheets_header_info(l.lines, l.document_type)
      ELSE ReturnsNone

\* ------------------------------------------------------------------- inputs

FillerLine == <<"f">>

LineKinds ==
  { <<>>,
    <<"w">>,
    <<"_", "v", "_">>,
    <<"D">>,
    <<"w", "_", "N", "_">>,
    <<"N", "v">>,
    <<"OL">>,
    <<"SO">>,
    <<"CRS">>,
    <<"ES">>,
    <<"w", "_", "DE">> }

Bodies == UNION { [1..n -> LineKinds] : n \in 0..MaxBody }

\* extract_all_text: the lines of the pages, each followed by a newline
Texts ==
  { join(<<"\n">>, [k \in 1..pad |-> FillerLine] \o body) \o <<"\n">> :
      pad \in 0..MaxPad, body \in Bodies }

NoGrid == [columns |-> <<>>, index |-> <<>>, rows |-> <<>>]

NotReturned == [kind |-> "not returned"]

NoLocals == [document_type |-> "", lines |-> <<>>,
             date_line |-> None, date_line_index |-> -1]

Init ==
  /\ text \in Texts
  /\ raw_grid = NoGrid
  /\ extracted_df = NoGrid
  /\ pc = "ready"
  /\ ret = NotReturned
  /\ locals = NoLocals
  /\ first_ret = NotReturned

\* ------------------------------------------------------------------ actions

CallInferDocumentType ==
  /\ pc = "ready"
  /\ pc' = "infer_document_type"
  /\ ret' = [kind |-> "str", value |-> infer_document_type(text)]
  /\ UNCHANGED <<text, raw_grid, extracted_df, locals, first_ret>>

CallFindCompetitionDateLine ==
  /\ pc = "ready"
  /\ pc' = "find_competition_date_line"
  /\ ret' = [kind |-> "line"] @@ find_competition_date_line(text)
  /\ UNCHANGED <<text, raw_grid, extracted_df, locals, first_ret>>

CallExtractHeaderInfo ==
  /\ pc = "ready"
  /\ pc' = "extract_header_info"
  /\ ret' = extract_header_info(text)
  /\ locals' = header_locals(text)
  /\ UNCHANGED <<text, raw_grid, extracted_df, first_ret>>

Next ==
  \/ CallInferDocumentType
  \/ CallFindCompetitionDateLine
  \/ CallExtractHeaderInfo

Spec == Init /\ [][Next]_vars

\* ------------------------------------------------------------- table cells

Rank == <<"R", "a", "n", "k">>

Ranking == <<"R", "a", "n", "k", "i", "n", "g">>

Name == <<"N", "a", "m", "e">>

WD == <<"W", "D">>

DNS == <<"D", "N", "S">>

\* the characters str.isdecimal accepts, as far as cells hold them
DecimalDigits == {"0", "1", "2", "3", "4", "5", "6", "7", "8", "9"}

\* the characters str.isdigit accepts: the decimal ones and the other Unicode
\* digits, such as the superscript two U+00B2, written "sup2"
UnicodeDigits == DecimalDigits \cup {"sup2"}

\* str.isdigit()
isdigit(s) == s # <<>> /\ \A p \in 1..Len(s) : s[p] \in UnicodeDigits

IsDecimal(s) == s # <<>> /\ \A p \in 1..Len(s) : s[p] \in DecimalDigits

Unsigned(s) == IF s # <<>> /\ Head(s) \in {"+", "-"} THEN Tail(s) ELSE s

lower(s) ==
  [p \in 1..Len(s) |->
     CASE s[p] = "I" -> "i" [] s[p] = "N" -> "n" [] s[p] = "F" -> "f"
       [] s[p] = "A" -> "a" [] s[p] = "T" -> "t" [] s[p] = "Y" -> "y"
       [] OTHER -> s[p]]

IsMantissa(m) ==
  \/ IsDecimal(m)
  \/ \E d \in 1..Len(m) :
       LET a == SubSeq(m, 1, d - 1)
           c == SubSeq(m, d + 1, Len(m))
       IN  /\ m[d] = "."
           /\ a = <<>> \/ IsDecimal(a)
           /\ c = <<>> \/ IsDecimal(c)
           /\ a # <<>> \/ c # <<>>

\* float(s) returns (TRUE) or raises ValueError (FALSE): white space around,
\* a sign, then inf, infinity or nan in any case, or a decimal literal with
\* an optional exponent
float_parses(s) ==
  LET b == Unsigned(strip(s))
  IN  \/ lower(b) \in { <<"i", "n", "f">>, <<"n", "a", "n">>,
                        <<"i", "n", "f", "i", "n", "i", "t", "y">> }
      \/ IsMantissa(b)
      \/ \E e \in 1..Len(b) :
           /\ b[e] \in {"e", "E"}
           /\ IsMantissa(SubSeq(b, 1, e - 1))
           /\ IsDecimal(Unsigned(SubSeq(b, e + 1, Len(b))))

is_valid_rank(rank) ==
  IF isdigit(rank) \/ rank = WD THEN TRUE ELSE float_parses(rank)

\* --------------------------------------------------------------- DataFrame

\* a column label: an integer of the default RangeIndex, or a string
IntLabel(k) == [int |-> k]

StrLabel(c) == [str |-> c]

RangeIndex(n) == [k \in 1..n |-> k - 1]

\* the DataFrame of a raw grid: default column labels and default index
DataFrame(rows) ==
  [columns |-> [k \in 1..(IF rows = <<>> THEN 0 ELSE Len(rows[1])) |-> IntLabel(k - 1)],
   index |-> RangeIndex(Len(rows)),
   rows |-> rows]

\* equality with the keyword in place of containment
str_equals(cell, keyword) == cell = keyword

\* Series.str.contains(keyword) of one cell, keyword a plain literal
str_contains(cell, keyword) ==
  \E p \in 0..(Len(cell) - Len(keyword)) :
    SubSeq(cell, p + 1, p + Len(keyword)) = keyword

\* row.astype(str).str.contains(header_keyword).any()
row_contains_any(row, keyword) ==
  \E c \in 1..Len(row) : str_contains(row[c], keyword)

\* the loop over df.iterrows(): the label of the first row holding the
\* keyword, from position p on; -1 for None
RECURSIVE find_header_row(_, _, _)
find_header_row(df, keyword, p) ==
  IF p > Len(df.rows) THEN -1
  ELSE IF row_contains_any(df.rows[p], keyword) THEN df.index[p]
  ELSE find_header_row(df, keyword, p + 1)

\* the positions, from p on, at which a boolean mask is true, in order
RECURSIVE kept_positions(_, _)
kept_positions(mask, p) ==
  IF p > Len(mask) THEN <<>>
  ELSE IF mask[p] THEN <<p>> \o kept_positions(mask, p + 1)
  ELSE kept_positions(mask, p + 1)

take(df, ps) ==
  [columns |-> df.columns,
   index |-> [k \in 1..Len(ps) |-> df.index[ps[k]]],
   rows |-> [k \in 1..Len(ps) |-> df.rows[ps[k]]]]

\* df.drop(index=range(stop)): a new frame without the rows labelled 0..stop-1
drop_index_range(df, stop) ==
  LET mask == [p \in 1..Len(df.rows) |-> ~(df.index[p] \in 0..(stop - 1))]
  IN  take(df, kept_positions(mask, 1))

\* df.reset_index(drop=True, inplace=True)
reset_index(df) == [df EXCEPT !.index = RangeIndex(Len(df.rows))]

\* df.columns = df.iloc[header_row_index]
set_columns(df, header_row_index) ==
  [df EXCEPT !.columns =
     [k \in 1..Len(df.rows[header_row_index + 1]) |->
        StrLabel(df.rows[header_row_index + 1][k])]]

\* set_table_header: arg is the frame passed in as the call leaves it, ret
\* the frame returned (the very object passed in when no header row is found)
set_table_header(df, header_keyword) ==
  LET header_row_index == find_header_row(df, header_keyword, 1)
  IN  IF header_row_index # -1
      THEN LET renamed == set_columns(df, header_row_index)
           IN  [arg |-> renamed,
                ret |-> reset_index(drop_index_range(renamed, header_row_index + 1))]
      ELSE [arg |-> df, ret |-> df]

\* df[df['Rank'].apply(is_valid_rank)]
filter_valid_rank(df) ==
  LET rank_columns == {k \in 1..Len(df.columns) : df.columns[k] = StrLabel(Rank)}
  IN  IF rank_columns = {} THEN [kind |-> "KeyError"]
      ELSE IF Cardinality(rank_columns) > 1 THEN [kind |-> "AttributeError"]
      ELSE LET c == CHOOSE k \in rank_columns : TRUE
               mask == [p \in 1..Len(df.rows) |-> is_valid_rank(df.rows[p][c])]
           IN  [kind |-> "df", df |-> take(df, kept_positions(mask, 1))]

clean_results_table(df) ==
  LET s == set_table_header(df, Rank)
  IN  [arg |-> s.arg, ret |-> filter_valid_rank(s.ret)]

\* ------------------------------------------------------------- table inputs

RowKinds ==
  { << <<>>, <<"T">> >>,
    << Rank, Name >>,
    << Name, Rank >>,
    << Rank, Rank >>,
    << Ranking, Name >>,
    << <<"5">>, <<"A">> >>,
    << WD, <<"A">> >>,
    << <<"5", ".", "5">>, <<"A">> >>,
    << DNS, <<"7">> >>,
    << <<>>, <<"1", "2">> >>,
    << <<"sup2">>, <<"A">> >>,
    << <<"n", "a", "n">>, <<"A">> >> }

Grids == UNION { [1..n -> RowKinds] : n \in 0..MaxRows }

Keywords == {Rank, Name}

InitTable ==
  /\ text = <<>>
  /\ raw_grid \in { DataFrame(rows) : rows \in Grids }
  /\ extracted_df = raw_grid
  /\ pc = "ready"
  /\ ret = NotReturned
  /\ locals = NoLocals
  /\ first_ret = NotReturned

CallSetTableHeader ==
  /\ pc = "ready"
  /\ \E header_keyword \in Keywords :
       LET s == set_table_header(extracted_df, header_keyword)
       IN  /\ extracted_df' = s.arg
           /\ ret' = [kind |-> "df", df |-> s.ret, header_keyword |-> header_keyword]
  /\ pc' = "set_table_header"
  /\ UNCHANGED <<text, raw_grid, locals, first_ret>>

\* set_table_header again, on the frame the first call returned
CallSetTableHeaderAgain ==
  /\ pc = "set_table_header"
  /\ LET s == set_table_header(ret.df, ret.header_keyword)
     IN  ret' = [ret EXCEPT !.df = s.ret]
  /\ first_ret' = ret
  /\ pc' = "set_table_header again"
  /\ UNCHANGED <<text, raw_grid, extracted_df, locals>>

CallCleanResultsTable ==
  /\ pc = "ready"
  /\ LET s == clean_results_table(extracted_df)
     IN  /\ extracted_df' = s.arg
         /\ ret' = s.ret
  /\ pc' = "clean_results_table"
  /\ UNCHANGED <<text, raw_grid, locals, first_ret>>

NextTable ==
  \/ CallSetTableHeader
  \/ CallSetTableHeaderAgain
  \/ CallCleanResultsTable

SpecTable == InitTable /\ [][NextTable]_vars

\* ------------------------------------------------------------------- claims

SetMin(S) == CHOOSE x \in S : \A y \in S : x <= y

TextLines == split(strip(text))

\* the 0-based positions, within the first SearchWindow lines, of the lines
\* that match a date pattern
WindowMatches(lines) ==
  {p \in 0..(Min(SearchWindow, Len(lines)) - 1) : any_pattern(lines[p + 1])}

EventSheetFamily == {"Officials List", "Starting Order", "Category Result Summary"}

\* C1: for a document classified as Officials List, Starting Order or
\* Category Result Summary whose date line is at index i with i >= 1 and
\* i + 1 < lineCount, extract_header_info returns the record with
\* CompetitionName = the space-joined lines 0..i-2, Location = lines[i-1],
\* DateRange = lines[i], Event = lines[i+1], each edge-trimmed, and
\* DocumentType = the classified type.
C1_EventSheetHeader ==
  LET lines == TextLines
      M == WindowMatches(lines)
      ty == infer_document_type(text)
  IN  (/\ pc = "extract_header_info"
       /\ ty \in EventSheetFamily
       /\ M # {}
       /\ SetMin(M) >= 1
       /\ SetMin(M) + 1 < Len(lines))
      => LET i == SetMin(M)
         IN  ret = [kind |-> "header",
                    CompetitionName |-> strip(join(<<"_">>, SubSeq(lines, 1, i - 1))),
                    Location |-> strip(lines[i]),
                    DateRange |-> strip(lines[i + 1]),
                    Event |-> strip(lines[i + 2]),
                    DocumentType |-> ty]

\* C2: for a document classified as Detail Sheets with at least 4 lines,
\* extract_header_info returns CompetitionName = line[0], DateRange = line[1],
\* Location = line[2], Event = line[3], whether or not one of the first 10
\* lines matches a date pattern.
C2_DetailSheetHeader ==
  LET lines == TextLines
      ty == infer_document_type(text)
  IN  (pc = "extract_header_info" /\ ty = "Detail Sheets" /\ Len(lines) >= 4)
      => ret = [kind |-> "header",
                CompetitionName |-> strip(lines[1]),
                DateRange |-> strip(lines[2]),
                Location |-> strip(lines[3]),
                Event |-> strip(lines[4]),
                DocumentType |-> ty]

\* C3: when the event-sheet layout is applied with a date-line index i for
\* which a needed line does not exist (i = 0, or i + 1 >= lineCount),
\* extract_header_info ends in an error and returns no header record.
C3_UnderflowRaises ==
  LET lines == TextLines
      M == WindowMatches(lines)
  IN  (/\ pc = "extract_header_info"
       /\ infer_document_type(text) \in {"Officials List", "Starting Order"}
       /\ M # {}
       /\ (SetMin(M) = 0 \/ SetMin(M) + 1 >= Len(lines)))
      => ret = IndexError

\* substring containment, stated by positions
HoldsKeyword(cell, keyword) ==
  \E off \in 0..(Len(cell) - Len(keyword)) :
    \A j \in 1..Len(keyword) : cell[off + j] = keyword[j]

\* the positions of the rows of a frame that hold the keyword in some cell
KeywordRows(df, keyword) ==
  {p \in 1..Len(df.rows) :
     \E c \in 1..Len(df.rows[p]) : HoldsKeyword(df.rows[p][c], keyword)}

\* C4: for a raw grid in which no cell of any row contains 'Rank',
\* clean_results_table completes without an error.
C4_KeywordMissNeverRaises ==
  (pc = "clean_results_table" /\ KeywordRows(raw_grid, Rank) = {})
  => ret.kind = "df"

\* the reference: the first row holding the keyword names the columns, the
\* rows after it follow in their order, indexed from 0; no such row, no change
HeaderReference(grid, keyword) ==
  LET H == KeywordRows(grid, keyword)
  IN  IF H = {} THEN grid
      ELSE LET h == SetMin(H)
           IN  [columns |-> [k \in 1..Len(grid.rows[h]) |-> StrLabel(grid.rows[h][k])],
                index |-> [k \in 1..(Len(grid.rows) - h) |-> k - 1],
                rows |-> [k \in 1..(Len(grid.rows) - h) |-> grid.rows[h + k]]]

ValidRankToken(cell) ==
  \/ cell # <<>> /\ \A p \in 1..Len(cell) : cell[p] \in DecimalDigits
  \/ cell = WD
  \/ float_parses(cell)

\* the rows of a grid after row h whose cell in column c is a rank token, in
\* their order
RECURSIVE RankedRowsAfter(_, _, _)
RankedRowsAfter(grid, h, c) ==
  IF h >= Len(grid.rows) THEN <<>>
  ELSE (IF ValidRankToken(grid.rows[h + 1][c]) THEN <<grid.rows[h + 1]>> ELSE <<>>)
       \o RankedRowsAfter(grid, h + 1, c)

\* C6: on a grid whose header row has exactly one column named 'Rank', the
\* rows clean_results_table retains are exactly the rows after the header row
\* whose Rank cell is all decimal digits, 'WD' or a float literal, in their
\* original order.
C6_RankFilter ==
  LET H == KeywordRows(raw_grid, Rank)
  IN  (/\ pc = "clean_results_table"
       /\ H # {}
       /\ Cardinality({c \in 1..Len(raw_grid.rows[SetMin(H)]) :
                         raw_grid.rows[SetMin(H)][c] = Rank}) = 1)
      => LET h == SetMin(H)
             c == CHOOSE k \in 1..Len(raw_grid.rows[h]) : raw_grid.rows[h][k] = Rank
         IN  /\ ret.kind = "df"
             /\ ret.df.rows = RankedRowsAfter(raw_grid, h, c)

\* C7: the date line is the first of the first min(10, lineCount) lines that
\* matches a date pattern, the index extract_header_info derives is its
\* position, and both are absent when none of those lines matches.
C7_FirstMatchInWindow ==
  LET lines == TextLines
      M == WindowMatches(lines)
  IN  /\ pc = "find_competition_date_line"
         => IF M = {} THEN ~ret.found
            ELSE ret.found /\ ret.line = lines[SetMin(M) + 1]
      /\ pc = "extract_header_info"
         => /\ locals.date_line_index = (IF M = {} THEN -1 ELSE SetMin(M))
            /\ locals.date_line_index < Min(SearchWindow, Len(lines))

C7_Witness ==
  LET lines == TextLines
  IN  /\ pc = "extract_header_info"
      /\ Len(lines) > SearchWindow
      /\ any_pattern(lines[SearchWindow])
      /\ any_pattern(lines[SearchWindow + 1])
      /\ lines[SearchWindow] # lines[SearchWindow + 1]
      /\ locals.date_line_index = SearchWindow - 1
      /\ locals.date_line.line = lines[SearchWindow]

MarkerRules ==
  << [markers |-> {"OL"}, type |-> "Officials List"],
     [markers |-> {"SO"}, type |-> "Starting Order"],
     [markers |-> {"CRS"}, type |-> "Category Result Summary"],
     [markers |-> {"ES", "DE"}, type |-> "Detail Sheets"] >>

\* the rules with a marker somewhere in the text
RulesHit(t) ==
  {k \in 1..Len(MarkerRules) :
     \E m \in MarkerRules[k].markers : \E p \in 1..Len(t) : t[p] = m}

\* C8: infer_document_type returns the type of the highest-priority marker
\* present in the text, wherever the markers are, and Unknown exactly when
\* no marker is present.
C8_FirstMatchWins ==
  pc = "infer_document_type"
  => ret.value = (IF RulesHit(text) = {} THEN "Unknown"
                  ELSE MarkerRules[SetMin(RulesHit(text))].type)

\* a lower-priority marker stands before a higher-priority one
C8_Witness ==
  /\ pc = "infer_document_type"
  /\ \E p, q \in 1..Len(text) : p < q /\ text[p] = "SO" /\ text[q] = "OL"
  /\ \E p \in 1..Len(text) : text[p] = "DE"
  /\ ret.value = "Officials List"

\* C9: if the classifier returns Unknown, or the document is of the
\* event-sheet family and none of its first 10 lines is a date line,
\* extract_header_info returns an empty record and raises no error.
C9_GuardReturnsEmpty ==
  LET ty == infer_document_type(text)
  IN  (/\ pc = "extract_header_info"
       /\ \/ ty = "Unknown"
          \/ ty \in EventSheetFamily /\ WindowMatches(TextLines) = {})
      => ret = EmptyDict

C9_Witness ==
  LET lines == TextLines
  IN  /\ pc = "extract_header_info"
      /\ infer_document_type(text) = "Starting Order"
      /\ WindowMatches(lines) = {}
      /\ \E p \in 1..Len(lines) : any_pattern(lines[p])
      /\ ret = EmptyDict

\* C10: after set_table_header or clean_results_table returns, the grid the
\* caller passed in has the column names, the rows and the row index it had
\* before the call.
C10_GridReadOnly ==
  pc \in {"set_table_header", "clean_results_table"} => extracted_df = raw_grid

====
